---------------------------- MODULE Spec2Model ----------------------------
(***************************************************************************)
(* A model of toolkit/devtools/security/LocalCertService.cpp: the local    *)
(* self-signed certificate service (GetOrCreateCert, RemoveCert,           *)
(* GetLoginPromptRequired) and the two tasks it dispatches.                *)
(*                                                                         *)
(* Time is counted in whole seconds: a PRTime is a number of microseconds, *)
(* and every time of the model is a multiple of PR_USEC_PER_SEC, divided   *)
(* by it (365 days of microseconds do not fit TLC's integers).             *)
(***************************************************************************)
EXTENDS Integers, Sequences, FiniteSets, TLC

VARIABLES
  store,     \* the certificates of the NSS certificate DB (a set of records)
  keys,      \* the persistent private keys on the internal key slot (key ids)
  nextKey,   \* the id the next generated key pair gets
  slot,      \* the key slot's credential state
  now,       \* PR_Now()
  ticks,     \* how often the clock has advanced
  tasks,     \* the LocalCertGetTask / LocalCertRemoveTask objects, per worker
  last,      \* the request completed last
  certDB,    \* whether do_GetService(NS_X509CERTDB_CONTRACTID) gives a service
  nRequests  \* how many requests the calling context has made (concurrent runs)

vars == <<store, keys, nextKey, slot, now, ticks, tasks, last, certDB, nRequests>>

---------------------------------------------------------------------------
(* Bounds of the model. *)

MaxTasks == 2      \* worker contexts
MaxKeys == 3       \* key pairs generated before the token refuses more
MaxTicks == 1      \* clock advances
MaxRequests == 2   \* requests of a concurrent run

---------------------------------------------------------------------------
(* Values. *)

NS_OK == "NS_OK"
NS_ERROR_UNEXPECTED == "NS_ERROR_UNEXPECTED"
NS_ERROR_FAILURE == "NS_ERROR_FAILURE"
NS_ERROR_INVALID_ARG == "NS_ERROR_INVALID_ARG"
NS_ERROR_INVALID_POINTER == "NS_ERROR_INVALID_POINTER"
\* mozilla::psm::GetXPCOMFromNSSError(PR_GetError()) and a failed MapSECStatus
NSS_ERROR == "NSS_ERROR"
\* what nsIPK11Token::Login returns when the prompt fails or is declined
LOGIN_ERROR == "LOGIN_ERROR"

NS_FAILED(rv) == rv # NS_OK

\* One day of PRTime, in the model's seconds.
oneDay == 60 * 60 * 24

commonNamePrefix == "CN="

\* The nicknames callers pass; "" is the empty nickname.
Nicknames == {"", "n"}

\* The serial numbers PK11_GenerateRandomOnSlot can draw (the old one too).
Serials == {1, 2}

\* The clock when the model starts, and how far it can advance in one step.
Now0 == 400 * oneDay
TickDeltas == {1, oneDay}

\* A null nsIX509Cert / CERTCertificate pointer.
nullptr ==
  [serial |-> 0, nickname |-> "", isRoot |-> FALSE, subjectName |-> "",
   issuerName |-> "", notBefore |-> 0, notAfter |-> 0, key |-> 0]

\* A certificate of the store; key is the id of its private key, 0 for none.
Cert(serial, nickname, isRoot, subjectName, issuerName, notBefore, notAfter, key) ==
  [serial |-> serial, nickname |-> nickname, isRoot |-> isRoot,
   subjectName |-> subjectName, issuerName |-> issuerName,
   notBefore |-> notBefore, notAfter |-> notAfter, key |-> key]

\* The certificates a store can hold under "n" when the model starts: every
\* combination of the names RemoveExisting and Validate look at, and for a
\* certificate of the service's own the validity windows around the clock.
InitialCerts ==
  { Cert(1, "n", r, s, i, Now0 - 10 * oneDay, Now0 + 300 * oneDay,
         IF r /\ s = "CN=n" /\ i = "CN=n" THEN 1 ELSE 0) :
      r \in BOOLEAN, s \in {"CN=n", "CN=x"}, i \in {"CN=n", "CN=x"} }
  \cup
  { Cert(1, "n", TRUE, "CN=n", "CN=n", nb, na, 1) :
      nb \in {Now0 - 10 * oneDay, Now0 + 1},
      na \in {Now0 - 2 * oneDay, Now0 - oneDay - 1, Now0 - oneDay,
              Now0 + 300 * oneDay} }

\* A certificate another nickname holds, which no request of the model names.
Bystander ==
  Cert(2, "m", TRUE, "CN=m", "CN=m", Now0 - 10 * oneDay, Now0 + 300 * oneDay, 0)

\* Certificates of the store under a nickname (PK11_FindCertFromNickname and
\* nsIX509CertDB::FindCertByNickname return one of them).
CertsByNickname(s, nickname) == { c \in s : c.nickname = nickname }

---------------------------------------------------------------------------
(* Strings.  LocalCertTask keeps the nickname as an nsCString and compares  *)
(* it with the C strings of a CERTCertificate; LocalCertGetTask::Validate   *)
(* works on the UTF-16 strings nsIX509Cert hands out.                       *)

NS_ConvertASCIItoUTF16(s) == [utf16 |-> s]

\* operator+ of two UTF-16 strings
WideConcat(a, b) == [utf16 |-> a.utf16 \o b.utf16]

\* nsIX509Cert::GetSubjectName, GetIssuerName, GetIsSelfSigned
GetSubjectName(c) == NS_ConvertASCIItoUTF16(c.subjectName)
GetIssuerName(c) == NS_ConvertASCIItoUTF16(c.issuerName)
GetIsSelfSigned(c) == c.isRoot

---------------------------------------------------------------------------
(* The key slot: PK11_NeedUserInit, PK11_NeedLogin, PK11_IsLoggedIn.        *)

SlotState(needUserInit, needLogin, isLoggedIn) ==
  [needUserInit |-> needUserInit, needLogin |-> needLogin,
   isLoggedIn |-> isLoggedIn]

\* A profile that never had a password, and one with a master password set
\* (not logged in yet).
InitSlots == {SlotState(TRUE, FALSE, FALSE), SlotState(FALSE, TRUE, FALSE)}

\* PK11_InitPin(slot, "", ""): the slot has a (empty) password from now on.
PK11_InitPin(sl) == [sl EXCEPT !.needUserInit = FALSE, !.needLogin = FALSE]

\* The steps LoginToKeySlot and GetLoginPromptRequired share: the key slot,
\* then the empty password when there is none yet.
SlotInit(sl, fail) ==
  IF fail = "slot" THEN [rv |-> NSS_ERROR, slot |-> sl]
  ELSE IF sl.needUserInit
    THEN IF fail = "InitPin" THEN [rv |-> NSS_ERROR, slot |-> sl]
         ELSE [rv |-> NS_OK, slot |-> PK11_InitPin(sl)]
    ELSE [rv |-> NS_OK, slot |-> sl]

\* PK11_NeedLogin(slot) && !PK11_IsLoggedIn(slot, nullptr)
PromptNeeded(sl) == sl.needLogin /\ ~sl.isLoggedIn

\* LocalCertService::LoginToKeySlot.  fail names the call to the environment
\* that fails if it is made; prompted tells whether keyToken->Login was called.
LoginToKeySlot(sl, fail) ==
  LET i == SlotInit(sl, fail) IN
  IF NS_FAILED(i.rv) THEN [rv |-> i.rv, slot |-> i.slot, prompted |-> FALSE]
  ELSE IF PromptNeeded(i.slot)
    THEN IF fail = "tokenDB"
           THEN [rv |-> NS_ERROR_FAILURE, slot |-> i.slot, prompted |-> FALSE]
         ELSE IF fail = "keyToken"
           THEN [rv |-> NS_ERROR_FAILURE, slot |-> i.slot, prompted |-> FALSE]
         ELSE IF fail = "Login"
           THEN [rv |-> LOGIN_ERROR, slot |-> i.slot, prompted |-> TRUE]
         ELSE [rv |-> NS_OK, slot |-> [i.slot EXCEPT !.isLoggedIn = TRUE],
               prompted |-> TRUE]
    ELSE [rv |-> NS_OK, slot |-> i.slot, prompted |-> FALSE]

\* The calls an entry point makes to its environment, any of which can fail.
Failures == {"none", "slot", "InitPin", "tokenDB", "keyToken", "Login", "Dispatch"}

---------------------------------------------------------------------------
(* The tasks. *)

Workers == 1..MaxTasks

\* A worker with no task.  Besides the members of the task (mNickname, mCert)
\* and the locals of its methods (rv, cert, certFromDER, privateKey), a task
\* records what it did: phase (0: Generate not called, 1: called at line 87,
\* 2: called at line 97), nGenerate (calls of Generate), validated, vCert and
\* vRv (the call of Validate), failedAt (the step that made Generate or
\* RemoveExisting fail), login (what LoginToKeySlot returned to the request),
\* calls (calls of the callback so far), store0 and
\* keys0 (the store and the keys when the request was made), deleted and
\* imported (the certificates it took from and added to the store).
IdleTask ==
  [kind |-> "none", mNickname |-> "", pc |-> "idle", rv |-> NS_OK,
   mCert |-> nullptr, cert |-> nullptr, certFromDER |-> nullptr,
   privateKey |-> 0, phase |-> 0,
   nGenerate |-> 0, validated |-> FALSE, vCert |-> nullptr, vRv |-> NS_OK,
   prompted |-> FALSE, login |-> NS_OK, calls |-> 0, failedAt |-> "none",
   store0 |-> {}, keys0 |-> {}, deleted |-> {}, imported |-> {}]

\* new LocalCertGetTask(aNickname, aCallback) / new LocalCertRemoveTask(..),
\* dispatched.  store0 and keys0 remember the store when the request was made.
NewTask(kind, aNickname, prompted, calls) ==
  [IdleTask EXCEPT !.kind = kind, !.mNickname = aNickname,
                   !.pc = IF kind = "Get" THEN "GetFromDB" ELSE "RemoveExisting",
                   !.prompted = prompted, !.calls = calls,
                   !.store0 = store, !.keys0 = keys]

Running(i) == tasks[i].pc # "idle"
NoTaskRunning == \A i \in Workers : ~Running(i)

\* CalculateResult returns rv: the task waits for CallCallback(rv).
Return(t, rv) == [t EXCEPT !.pc = "CallCallback", !.rv = rv]

\* LocalCertGetTask::CalculateResult once Generate has returned rv: the call
\* of line 87 goes on to Validate, the call of line 97 returns.
AfterGenerate(t, rv) ==
  IF NS_FAILED(rv) THEN Return(t, rv)
  ELSE IF t.phase = 1 THEN [t EXCEPT !.pc = "Validate", !.rv = rv]
  ELSE Return(t, NS_OK)

\* The caller of RemoveExisting once it has returned rv: Generate goes on to
\* build the certificate, LocalCertRemoveTask::CalculateResult returns rv.
AfterRemoveExisting(t, rv) ==
  IF t.kind = "Remove" THEN Return(t, rv)
  ELSE IF NS_FAILED(rv) THEN AfterGenerate(t, rv)
  ELSE [t EXCEPT !.pc = "GenerateKeyPair", !.rv = rv]

\* GeneratedByService without the test of the issuer name.
GeneratedByService_NoIssuer(cert, mNickname) ==
  LET subjectNameFromNickname == commonNamePrefix \o mNickname IN
  IF ~cert.isRoot THEN NS_ERROR_UNEXPECTED
  ELSE IF subjectNameFromNickname # cert.subjectName THEN NS_ERROR_UNEXPECTED
  ELSE NS_OK

\* The test RemoveExisting makes of a certificate found under the nickname
\* before it deletes it.
GeneratedByService(cert, mNickname) ==
  LET subjectNameFromNickname == commonNamePrefix \o mNickname IN
  IF ~cert.isRoot THEN NS_ERROR_UNEXPECTED
  ELSE IF subjectNameFromNickname # cert.subjectName THEN NS_ERROR_UNEXPECTED
  ELSE IF subjectNameFromNickname # cert.issuerName THEN NS_ERROR_UNEXPECTED
  ELSE NS_OK

\* Validate without the comparison of the subject with "CN=" + nickname.
Validate_NoNickname(mCert, mNickname, t) ==
  IF ~GetIsSelfSigned(mCert) THEN NS_ERROR_FAILURE
  ELSE IF GetSubjectName(mCert) # GetIssuerName(mCert) THEN NS_ERROR_FAILURE
  ELSE IF mCert.notBefore > t \/ mCert.notAfter < (t - oneDay)
    THEN NS_ERROR_FAILURE
  ELSE NS_OK

\* Validate with <= for < at the end of the validity window.
Validate_Strict(mCert, mNickname, t) ==
  IF ~GetIsSelfSigned(mCert) THEN NS_ERROR_FAILURE
  ELSE IF GetSubjectName(mCert) # GetIssuerName(mCert) THEN NS_ERROR_FAILURE
  ELSE IF GetSubjectName(mCert) #
          WideConcat(NS_ConvertASCIItoUTF16(commonNamePrefix),
                     NS_ConvertASCIItoUTF16(mNickname)) THEN NS_ERROR_FAILURE
  ELSE IF mCert.notBefore > t \/ mCert.notAfter <= (t - oneDay)
    THEN NS_ERROR_FAILURE
  ELSE NS_OK

\* LocalCertGetTask::Validate of mCert at time t.
Validate(mCert, mNickname, t) ==
  LET subjectName == GetSubjectName(mCert)
      issuerName == GetIssuerName(mCert)
      subjectNameFromNickname ==
        WideConcat(NS_ConvertASCIItoUTF16(commonNamePrefix),
                   NS_ConvertASCIItoUTF16(mNickname))
  IN
  IF ~GetIsSelfSigned(mCert) THEN NS_ERROR_FAILURE
  ELSE IF subjectName # issuerName THEN NS_ERROR_FAILURE
  ELSE IF subjectName # subjectNameFromNickname THEN NS_ERROR_FAILURE
  ELSE IF mCert.notBefore > t \/ mCert.notAfter < (t - oneDay)
    THEN NS_ERROR_FAILURE
  ELSE NS_OK

\* GetFromDB that returns NS_OK without the assignment to mCert.
GetFromDB_NoAssign(t, found) ==
  IF ~certDB THEN [rv |-> NS_ERROR_FAILURE, mCert |-> t.mCert]
  ELSE IF found = nullptr THEN [rv |-> NS_ERROR_FAILURE, mCert |-> t.mCert]
  ELSE [rv |-> NS_OK, mCert |-> t.mCert]

\* LocalCertGetTask::GetFromDB: found is the certificate FindCertByNickname
\* returns (nullptr when it fails).
GetFromDB(t, found) ==
  IF ~certDB THEN [rv |-> NS_ERROR_FAILURE, mCert |-> t.mCert]
  ELSE IF found = nullptr THEN [rv |-> NS_ERROR_FAILURE, mCert |-> t.mCert]
  ELSE [rv |-> NS_OK, mCert |-> found]

\* What a lookup by nickname can return: one of the certificates under the
\* nickname, nullptr when there is none.
FindCertByNickname(s, nickname) ==
  IF CertsByNickname(s, nickname) = {} THEN {nullptr}
  ELSE CertsByNickname(s, nickname)

\* NewCertificate with a validity that starts now.
NewCertificate_NoGrace(mNickname, serial, t, privateKey) ==
  Cert(serial, mNickname, TRUE, commonNamePrefix \o mNickname,
       commonNamePrefix \o mNickname, t, t + (365 * oneDay), privateKey)

\* The certificate Generate builds: self-signed, subject and issuer
\* "CN=" + nickname, valid from one day before t to 365 days after.
NewCertificate(mNickname, serial, t, privateKey) ==
  LET subjectNameStr == commonNamePrefix \o mNickname
      notBefore == t - oneDay
      notAfter == t + (365 * oneDay)
  IN Cert(serial, mNickname, TRUE, subjectNameStr, subjectNameStr,
          notBefore, notAfter, privateKey)

---------------------------------------------------------------------------
(* Completed requests.  A request is complete when the call has returned    *)
(* and, if it dispatched a task, the task's callback has been called.       *)

\* What is remembered of a request: the call (kind, nickname, callback, ret,
\* whether it dispatched a task and prompted for the login) and the callback
\* (calls: how often it was called, cert and rv: with what).  aRequired is
\* what GetLoginPromptRequired answered, login what LoginToKeySlot returned to
\* the call.
Entry(kind, aNickname, aCallback, ret, dispatched, prompted, calls, cert, rv) ==
  [kind |-> kind, nickname |-> aNickname, callback |-> aCallback, ret |-> ret,
   dispatched |-> dispatched, prompted |-> prompted,
   calls |-> calls, cert |-> cert, rv |-> rv, login |-> NS_OK,
   aRequired |-> FALSE]

\* No request yet.
NoEntry == Entry("none", "", FALSE, NS_OK, FALSE, FALSE, 0, nullptr, NS_OK)

\* The worker a dispatched task runs on.
FreeWorker == CHOOSE i \in Workers : ~Running(i) /\ \A j \in Workers : j < i => Running(j)

---------------------------------------------------------------------------
(* Init *)

Init ==
  /\ store \in {{Bystander}} \cup {{c, Bystander} : c \in InitialCerts}
  /\ keys = {c.key : c \in store} \ {0}
  /\ nextKey = 2
  /\ slot \in InitSlots
  /\ now = Now0
  /\ ticks = 0
  /\ tasks = [i \in Workers |-> IdleTask]
  /\ last = NoEntry
  /\ certDB \in BOOLEAN
  /\ nRequests = 0

---------------------------------------------------------------------------
(* The service's entry points *)

\* CryptoTask::Dispatch(name): the task is handed to a worker (ok) or the
\* dispatch fails and its error is what the entry point returns.
Dispatch(fail) == IF fail = "Dispatch" THEN NS_ERROR_FAILURE ELSE NS_OK

\* Request that returns the error of a failed login without calling the
\* callback.
Request_NoCallback(kind, aNickname, aCallback, fail) ==
  /\ \E i \in Workers : ~Running(i)
  /\ IF aNickname = ""
       THEN /\ last' = Entry(kind, aNickname, aCallback, NS_ERROR_INVALID_ARG,
                             FALSE, FALSE, 0, nullptr, NS_OK)
            /\ UNCHANGED <<slot, tasks>>
     ELSE IF ~aCallback
       THEN /\ last' = Entry(kind, aNickname, aCallback, NS_ERROR_INVALID_POINTER,
                             FALSE, FALSE, 0, nullptr, NS_OK)
            /\ UNCHANGED <<slot, tasks>>
     ELSE
       LET login == LoginToKeySlot(slot, fail) IN
       /\ slot' = login.slot
       /\ IF NS_FAILED(login.rv)
            THEN /\ last' = [Entry(kind, aNickname, aCallback, login.rv, FALSE,
                                   login.prompted, 0, nullptr, NS_OK)
                               EXCEPT !.login = login.rv]
                 /\ UNCHANGED tasks
          ELSE IF NS_FAILED(Dispatch(fail))
            THEN /\ last' = Entry(kind, aNickname, aCallback, Dispatch(fail),
                                  FALSE, login.prompted, 0, nullptr, NS_OK)
                 /\ UNCHANGED tasks
          ELSE /\ tasks' = [tasks EXCEPT
                              ![FreeWorker] = NewTask(kind, aNickname, login.prompted, 0)]
               /\ UNCHANGED last
  /\ UNCHANGED <<store, keys, nextKey, now, ticks, certDB>>

\* Request that logs in to the key slot before it looks at its arguments.
Request_LoginFirst(kind, aNickname, aCallback, fail) ==
  LET login == LoginToKeySlot(slot, fail) IN
  /\ \E i \in Workers : ~Running(i)
  /\ slot' = login.slot
  /\ IF aNickname = ""
       THEN /\ last' = Entry(kind, aNickname, aCallback, NS_ERROR_INVALID_ARG,
                             FALSE, login.prompted, 0, nullptr, NS_OK)
            /\ UNCHANGED tasks
     ELSE IF ~aCallback
       THEN /\ last' = Entry(kind, aNickname, aCallback, NS_ERROR_INVALID_POINTER,
                             FALSE, login.prompted, 0, nullptr, NS_OK)
            /\ UNCHANGED tasks
     ELSE IF NS_FAILED(login.rv)
       THEN /\ last' = [Entry(kind, aNickname, aCallback, NS_OK, FALSE,
                              login.prompted, 1, nullptr, login.rv)
                         EXCEPT !.login = login.rv]
            /\ UNCHANGED tasks
     ELSE IF NS_FAILED(Dispatch(fail))
       THEN /\ last' = Entry(kind, aNickname, aCallback, Dispatch(fail),
                             FALSE, login.prompted, 0, nullptr, NS_OK)
            /\ UNCHANGED tasks
     ELSE /\ tasks' = [tasks EXCEPT
                         ![FreeWorker] = NewTask(kind, aNickname, login.prompted, 0)]
          /\ UNCHANGED last
  /\ UNCHANGED <<store, keys, nextKey, now, ticks, certDB>>

\* Request without the return after the callback of a failed login: the task
\* is dispatched all the same.
Request_NoReturn(kind, aNickname, aCallback, fail) ==
  /\ \E i \in Workers : ~Running(i)
  /\ IF aNickname = ""
       THEN /\ last' = Entry(kind, aNickname, aCallback, NS_ERROR_INVALID_ARG,
                             FALSE, FALSE, 0, nullptr, NS_OK)
            /\ UNCHANGED <<slot, tasks>>
     ELSE IF ~aCallback
       THEN /\ last' = Entry(kind, aNickname, aCallback, NS_ERROR_INVALID_POINTER,
                             FALSE, FALSE, 0, nullptr, NS_OK)
            /\ UNCHANGED <<slot, tasks>>
     ELSE
       LET login == LoginToKeySlot(slot, fail) IN
       /\ slot' = login.slot
       /\ IF NS_FAILED(Dispatch(fail))
            THEN /\ last' = Entry(kind, aNickname, aCallback, Dispatch(fail),
                                  FALSE, login.prompted, 0, nullptr, NS_OK)
                 /\ UNCHANGED tasks
          ELSE /\ tasks' = [tasks EXCEPT
                              ![FreeWorker] =
                                [NewTask(kind, aNickname, login.prompted,
                                         IF NS_FAILED(login.rv) THEN 1 ELSE 0)
                                   EXCEPT !.login = login.rv]]
               /\ UNCHANGED last
  /\ UNCHANGED <<store, keys, nextKey, now, ticks, certDB>>

\* LocalCertService::GetOrCreateCert and LocalCertService::RemoveCert, which
\* differ in the task they create and the callback method they call.
Request(kind, aNickname, aCallback, fail) ==
  /\ \E i \in Workers : ~Running(i)
  /\ IF aNickname = ""
       THEN /\ last' = Entry(kind, aNickname, aCallback, NS_ERROR_INVALID_ARG,
                                  FALSE, FALSE, 0, nullptr, NS_OK)
            /\ UNCHANGED <<slot, tasks>>
     ELSE IF ~aCallback
       THEN /\ last' = Entry(kind, aNickname, aCallback, NS_ERROR_INVALID_POINTER,
                                  FALSE, FALSE, 0, nullptr, NS_OK)
            /\ UNCHANGED <<slot, tasks>>
     ELSE
       LET login == LoginToKeySlot(slot, fail) IN
       /\ slot' = login.slot
       /\ IF NS_FAILED(login.rv)
            THEN \* aCallback->HandleCert(nullptr, rv) / HandleResult(rv)
                 /\ last' = [Entry(kind, aNickname, aCallback, NS_OK, FALSE,
                                        login.prompted, 1, nullptr, login.rv)
                               EXCEPT !.login = login.rv]
                 /\ UNCHANGED tasks
          ELSE IF NS_FAILED(Dispatch(fail))
            THEN /\ last' = Entry(kind, aNickname, aCallback, Dispatch(fail),
                                       FALSE, login.prompted, 0, nullptr, NS_OK)
                 /\ UNCHANGED tasks
          ELSE /\ tasks' = [tasks EXCEPT
                              ![FreeWorker] = NewTask(kind, aNickname, login.prompted, 0)]
               /\ UNCHANGED last
  /\ UNCHANGED <<store, keys, nextKey, now, ticks, certDB>>

GetOrCreateCert(aNickname, aCallback, fail) ==
  Request("Get", aNickname, aCallback, fail)

RemoveCert(aNickname, aCallback, fail) ==
  Request("Remove", aNickname, aCallback, fail)

\* GetLoginPromptRequired that answers PK11_NeedLogin(slot) alone.
GetLoginPromptRequired_IgnoresLogin(fail) ==
  LET i == SlotInit(slot, fail) IN
  /\ slot' = i.slot
  /\ last' = [Entry("LoginPromptRequired", "", FALSE, i.rv, FALSE, FALSE, 0,
                    nullptr, NS_OK)
               EXCEPT !.aRequired = ~NS_FAILED(i.rv) /\ i.slot.needLogin]
  /\ UNCHANGED <<store, keys, nextKey, now, ticks, tasks, certDB, nRequests>>

\* LocalCertService::GetLoginPromptRequired
GetLoginPromptRequired(fail) ==
  LET i == SlotInit(slot, fail) IN
  /\ slot' = i.slot
  /\ last' = [Entry("LoginPromptRequired", "", FALSE, i.rv, FALSE, FALSE, 0,
                    nullptr, NS_OK)
               EXCEPT !.aRequired = ~NS_FAILED(i.rv) /\ PromptNeeded(i.slot)]
  /\ UNCHANGED <<store, keys, nextKey, now, ticks, tasks, certDB, nRequests>>

---------------------------------------------------------------------------
(* The steps of a task on its worker.  A step is one access to the store or *)
(* the key slot with the local computation around it.                       *)

SetTask(i, t) == tasks' = [tasks EXCEPT ![i] = t]

\* CalculateResult, line 84: rv = GetFromDB(); on failure Generate is called.
TaskGetFromDB(i) ==
  /\ tasks[i].pc = "GetFromDB"
  /\ \E found \in FindCertByNickname(store, tasks[i].mNickname) :
       LET r == GetFromDB(tasks[i], found)
           t == [tasks[i] EXCEPT !.mCert = r.mCert, !.rv = r.rv]
       IN SetTask(i, IF NS_FAILED(r.rv)
                       THEN [t EXCEPT !.pc = "Generate", !.phase = 1]
                       ELSE [t EXCEPT !.pc = "Validate"])
  /\ UNCHANGED <<store, keys, nextKey, slot, now, ticks, last, certDB, nRequests>>

\* TaskValidate that returns the error of Validate instead of calling Generate.
TaskValidate_NoFallback(i) ==
  /\ tasks[i].pc = "Validate"
  /\ LET rv == Validate(tasks[i].mCert, tasks[i].mNickname, now)
         t == [tasks[i] EXCEPT !.validated = TRUE, !.vCert = tasks[i].mCert,
                               !.vRv = rv, !.rv = rv]
     IN SetTask(i, Return(t, rv))
  /\ UNCHANGED <<store, keys, nextKey, slot, now, ticks, last, certDB, nRequests>>

\* TaskValidate with the test of Validate's result inverted.
TaskValidate_Inverted(i) ==
  /\ tasks[i].pc = "Validate"
  /\ LET rv == Validate(tasks[i].mCert, tasks[i].mNickname, now)
         t == [tasks[i] EXCEPT !.validated = TRUE, !.vCert = tasks[i].mCert,
                               !.vRv = rv, !.rv = rv]
     IN SetTask(i, IF ~NS_FAILED(rv)
                     THEN [t EXCEPT !.pc = "Generate", !.phase = 2]
                     ELSE Return(t, NS_OK))
  /\ UNCHANGED <<store, keys, nextKey, slot, now, ticks, last, certDB, nRequests>>

\* CalculateResult, lines 95-104: rv = Validate(); on failure Generate is
\* called, else the task returns NS_OK.
TaskValidate(i) ==
  /\ tasks[i].pc = "Validate"
  /\ LET rv == Validate(tasks[i].mCert, tasks[i].mNickname, now)
         t == [tasks[i] EXCEPT !.validated = TRUE, !.vCert = tasks[i].mCert,
                               !.vRv = rv, !.rv = rv]
     IN SetTask(i, IF NS_FAILED(rv)
                     THEN [t EXCEPT !.pc = "Generate", !.phase = 2]
                     ELSE Return(t, NS_OK))
  /\ UNCHANGED <<store, keys, nextKey, slot, now, ticks, last, certDB, nRequests>>

\* Generate, lines 109-121: the key slot, then RemoveExisting.
TaskGenerate(i, slotOk) ==
  /\ tasks[i].pc = "Generate"
  /\ LET t == [tasks[i] EXCEPT !.nGenerate = @ + 1] IN
     SetTask(i, IF ~slotOk THEN AfterGenerate([t EXCEPT !.failedAt = "slot"], NSS_ERROR)
                ELSE [t EXCEPT !.pc = "RemoveExisting"])
  /\ UNCHANGED <<store, keys, nextKey, slot, now, ticks, last, certDB, nRequests>>

\* TaskRemoveExisting that takes "no certificate found" for an error.
TaskRemoveExisting_NotFoundFails(i) ==
  /\ tasks[i].pc = "RemoveExisting"
  /\ \E cert \in FindCertByNickname(store, tasks[i].mNickname) :
       LET t == tasks[i] IN
       SetTask(i, IF cert = nullptr
                    THEN AfterRemoveExisting([t EXCEPT !.failedAt = "RemoveExisting"],
                                             NSS_ERROR)
                  ELSE IF NS_FAILED(GeneratedByService(cert, t.mNickname))
                    THEN AfterRemoveExisting(
                           [t EXCEPT !.failedAt = "RemoveExisting", !.cert = cert],
                           GeneratedByService(cert, t.mNickname))
                  ELSE [t EXCEPT !.pc = "DeleteTokenCertAndKey", !.cert = cert])
  /\ UNCHANGED <<store, keys, nextKey, slot, now, ticks, last, certDB, nRequests>>

\* TaskRemoveExisting that returns NS_OK for a certificate of the service's
\* own without deleting it.
TaskRemoveExisting_NoDelete(i) ==
  /\ tasks[i].pc = "RemoveExisting"
  /\ \E cert \in FindCertByNickname(store, tasks[i].mNickname) :
       LET t == tasks[i] IN
       SetTask(i, IF cert = nullptr THEN AfterRemoveExisting(t, NS_OK)
                  ELSE IF NS_FAILED(GeneratedByService(cert, t.mNickname))
                    THEN AfterRemoveExisting(
                           [t EXCEPT !.failedAt = "RemoveExisting", !.cert = cert],
                           GeneratedByService(cert, t.mNickname))
                  ELSE AfterRemoveExisting(t, NS_OK))
  /\ UNCHANGED <<store, keys, nextKey, slot, now, ticks, last, certDB, nRequests>>

\* RemoveExisting, lines 38-57: look a certificate up by nickname and test it;
\* cert is the certificate found.
TaskRemoveExisting(i) ==
  /\ tasks[i].pc = "RemoveExisting"
  /\ \E cert \in FindCertByNickname(store, tasks[i].mNickname) :
       LET t == tasks[i] IN
       SetTask(i, IF cert = nullptr THEN AfterRemoveExisting(t, NS_OK)
                  ELSE IF NS_FAILED(GeneratedByService(cert, t.mNickname))
                    THEN AfterRemoveExisting(
                           [t EXCEPT !.failedAt = "RemoveExisting", !.cert = cert],
                           GeneratedByService(cert, t.mNickname))
                  ELSE [t EXCEPT !.pc = "DeleteTokenCertAndKey", !.cert = cert])
  /\ UNCHANGED <<store, keys, nextKey, slot, now, ticks, last, certDB, nRequests>>

\* TaskDeleteTokenCertAndKey that reports success and deletes nothing.
TaskDeleteTokenCertAndKey_NoRemove(i, ok) ==
  /\ tasks[i].pc = "DeleteTokenCertAndKey"
  /\ LET t == tasks[i] IN
     IF ok
       THEN SetTask(i, [t EXCEPT !.pc = "RemoveExisting", !.cert = nullptr])
       ELSE SetTask(i, AfterRemoveExisting(
                         [t EXCEPT !.failedAt = "DeleteTokenCertAndKey"], NSS_ERROR))
  /\ UNCHANGED <<store, keys, nextKey, slot, now, ticks, last, certDB, nRequests>>

\* TaskDeleteTokenCertAndKey that deletes every self-signed certificate of the
\* store with the certificate found.
TaskDeleteTokenCertAndKey_AllRoots(i, ok) ==
  /\ tasks[i].pc = "DeleteTokenCertAndKey"
  /\ LET t == tasks[i]
         gone == {c \in store : c = t.cert \/ c.isRoot}
     IN
     IF ok
       THEN /\ store' = store \ gone
            /\ keys' = keys \ {c.key : c \in gone}
            /\ SetTask(i, [t EXCEPT !.pc = "RemoveExisting", !.cert = nullptr,
                                    !.deleted = @ \cup gone])
       ELSE /\ SetTask(i, AfterRemoveExisting(
                            [t EXCEPT !.failedAt = "DeleteTokenCertAndKey"], NSS_ERROR))
            /\ UNCHANGED <<store, keys>>
  /\ UNCHANGED <<nextKey, slot, now, ticks, last, certDB, nRequests>>

\* RemoveExisting, lines 59-63: PK11_DeleteTokenCertAndKey(cert), then the
\* loop looks again.  Deleting takes the certificate and its private key.
TaskDeleteTokenCertAndKey(i, ok) ==
  /\ tasks[i].pc = "DeleteTokenCertAndKey"
  /\ LET t == tasks[i] IN
     IF ok
       THEN /\ store' = store \ {t.cert}
            /\ keys' = keys \ {t.cert.key}
            /\ SetTask(i, [t EXCEPT !.pc = "RemoveExisting", !.cert = nullptr,
                                    !.deleted = @ \cup ({t.cert} \cap store)])
       ELSE /\ SetTask(i, AfterRemoveExisting(
                            [t EXCEPT !.failedAt = "DeleteTokenCertAndKey"], NSS_ERROR))
            /\ UNCHANGED <<store, keys>>
  /\ UNCHANGED <<nextKey, slot, now, ticks, last, certDB, nRequests>>

\* Generate, lines 123-153: the subject name, the curve, the key pair (a
\* token key: it stays on the slot).  failAt names the step that fails.
TaskGenerateKeyPair(i, failAt) ==
  /\ tasks[i].pc = "GenerateKeyPair"
  /\ LET t == tasks[i] IN
     IF failAt \in {"subjectName", "curveOidData", "privateKey"}
       THEN /\ SetTask(i, AfterGenerate([t EXCEPT !.failedAt = failAt], NSS_ERROR))
            /\ UNCHANGED <<keys, nextKey>>
       ELSE /\ nextKey <= MaxKeys
            /\ keys' = keys \cup {nextKey}
            /\ nextKey' = nextKey + 1
            /\ SetTask(i, [t EXCEPT !.pc = "CreateCertificate", !.privateKey = nextKey])
  /\ UNCHANGED <<store, slot, now, ticks, last, certDB, nRequests>>

\* The steps of Generate between the key pair and the import that can fail,
\* and what each returns.
CreateFailures ==
  [spki |-> NSS_ERROR, certRequest |-> NSS_ERROR, validity |-> NSS_ERROR,
   serial |-> NSS_ERROR, cert |-> NSS_ERROR, version |-> NS_ERROR_INVALID_POINTER,
   arena |-> NS_ERROR_INVALID_POINTER, signature |-> NSS_ERROR,
   certDER |-> NSS_ERROR, derCert |-> NSS_ERROR, certFromDER |-> NSS_ERROR]

\* Generate, lines 155-239: request, validity, serial, certificate, signature.
TaskCreateCertificate(i, failAt, serial) ==
  /\ tasks[i].pc = "CreateCertificate"
  /\ LET t == [tasks[i] EXCEPT !.privateKey = 0] IN
     IF failAt \in DOMAIN CreateFailures
       THEN SetTask(i, AfterGenerate([t EXCEPT !.failedAt = failAt],
                                     CreateFailures[failAt]))
       ELSE SetTask(i, [t EXCEPT !.pc = "ImportCert",
                          !.certFromDER = NewCertificate(t.mNickname, serial, now,
                                                         tasks[i].privateKey)])
  /\ UNCHANGED <<store, keys, nextKey, slot, now, ticks, last, certDB, nRequests>>

\* Generate, lines 241-246: PK11_ImportCert under the nickname.
TaskImportCert(i, ok) ==
  /\ tasks[i].pc = "ImportCert"
  /\ LET t == [tasks[i] EXCEPT !.certFromDER = nullptr] IN
     IF ok
       THEN /\ store' = store \cup {tasks[i].certFromDER}
            /\ SetTask(i, [t EXCEPT !.pc = "ReadBack",
                                    !.imported = @ \cup {tasks[i].certFromDER}])
       ELSE /\ SetTask(i, AfterGenerate([t EXCEPT !.failedAt = "ImportCert"], NSS_ERROR))
            /\ UNCHANGED store
  /\ UNCHANGED <<keys, nextKey, slot, now, ticks, last, certDB, nRequests>>

\* TaskReadBack that returns NS_OK without looking the certificate up.
TaskReadBack_NoLookup(i) ==
  /\ tasks[i].pc = "ReadBack"
  /\ SetTask(i, AfterGenerate(tasks[i], NS_OK))
  /\ UNCHANGED <<store, keys, nextKey, slot, now, ticks, last, certDB, nRequests>>

\* Generate, line 249: return GetFromDB().
TaskReadBack(i) ==
  /\ tasks[i].pc = "ReadBack"
  /\ \E found \in FindCertByNickname(store, tasks[i].mNickname) :
       LET r == GetFromDB(tasks[i], found) IN
       SetTask(i, AfterGenerate(
                    [tasks[i] EXCEPT !.mCert = r.mCert,
                       !.failedAt = IF NS_FAILED(r.rv) THEN "GetFromDB" ELSE @],
                    r.rv))
  /\ UNCHANGED <<store, keys, nextKey, slot, now, ticks, last, certDB, nRequests>>

\* LocalCertGetTask::CallCallback: mCallback->HandleCert(mCert, rv), and
\* LocalCertRemoveTask::CallCallback: mCallback->HandleResult(rv).
CallCallback(t, rv) ==
  [Entry(t.kind, t.mNickname, TRUE, NS_OK, TRUE, t.prompted, t.calls + 1,
         IF t.kind = "Get" THEN t.mCert ELSE nullptr, rv)
     EXCEPT !.login = t.login]

\* The executor calls CallCallback(rv) on the calling context once
\* CalculateResult has returned rv, and the task is gone.
TaskCallCallback(i) ==
  /\ tasks[i].pc = "CallCallback"
  /\ last' = CallCallback(tasks[i], tasks[i].rv)
  /\ SetTask(i, IdleTask)
  /\ UNCHANGED <<store, keys, nextKey, slot, now, ticks, certDB, nRequests>>

\* PR_Now() advances; a task reads one clock.
Tick(d) ==
  /\ ticks < MaxTicks
  /\ NoTaskRunning
  /\ now' = now + d
  /\ ticks' = ticks + 1
  /\ UNCHANGED <<store, keys, nextKey, slot, tasks, last, certDB, nRequests>>

---------------------------------------------------------------------------
(* Specifications *)

\* The steps of the task on worker i.
WorkerStep(i) ==
    \/ TaskGetFromDB(i)
    \/ TaskValidate(i)
    \/ \E slotOk \in BOOLEAN : TaskGenerate(i, slotOk)
    \/ TaskRemoveExisting(i)
    \/ \E ok \in BOOLEAN : TaskDeleteTokenCertAndKey(i, ok)
    \/ \E failAt \in {"subjectName", "curveOidData", "privateKey", "none"} :
         TaskGenerateKeyPair(i, failAt)
    \/ \E failAt \in DOMAIN CreateFailures \cup {"none"}, serial \in Serials :
         TaskCreateCertificate(i, failAt, serial)
    \/ \E ok \in BOOLEAN : TaskImportCert(i, ok)
    \/ TaskReadBack(i)
    \/ TaskCallCallback(i)

TaskStep == \E i \in Workers : WorkerStep(i)

\* The calling context makes one request after the other: it calls again
\* when the callback of the request before has been called.
Next ==
  \/ \E aNickname \in Nicknames, aCallback \in BOOLEAN, fail \in Failures :
       NoTaskRunning /\ GetOrCreateCert(aNickname, aCallback, fail)
         /\ UNCHANGED nRequests
  \/ \E aNickname \in Nicknames, aCallback \in BOOLEAN, fail \in Failures :
       NoTaskRunning /\ RemoveCert(aNickname, aCallback, fail)
         /\ UNCHANGED nRequests
  \/ \E fail \in {"none", "slot", "InitPin"} :
       NoTaskRunning /\ GetLoginPromptRequired(fail)
  \/ TaskStep
  \/ \E d \in TickDeltas : Tick(d)

Spec == Init /\ [][Next]_vars

\* The stores the concurrent runs start from: no certificate under "n", one
\* of the service's own that is valid, one that has expired, and one that is
\* not the service's own.
ConcCerts ==
  { Cert(1, "n", TRUE, "CN=n", "CN=n", Now0 - 10 * oneDay, na, 1) :
      na \in {Now0 - 2 * oneDay, Now0 + 300 * oneDay} }
  \cup {Cert(1, "n", FALSE, "CN=n", "CN=x", Now0 - 10 * oneDay,
              Now0 + 300 * oneDay, 0)}

InitConc ==
  /\ store \in {{Bystander}} \cup {{c, Bystander} : c \in ConcCerts}
  /\ keys = {c.key : c \in store} \ {0}
  /\ nextKey = 2
  /\ slot \in InitSlots
  /\ now = Now0
  /\ ticks = 0
  /\ tasks = [i \in Workers |-> IdleTask]
  /\ last = NoEntry
  /\ certDB = TRUE
  /\ nRequests = 0

\* The calling context does not wait: it makes a request whenever a worker is
\* free, MaxRequests of them, and the tasks' steps interleave.
NextConc ==
  \/ /\ nRequests < MaxRequests
     /\ GetOrCreateCert("n", TRUE, "none")
     /\ nRequests' = nRequests + 1
  \/ /\ nRequests < MaxRequests
     /\ RemoveCert("n", TRUE, "none")
     /\ nRequests' = nRequests + 1
  \/ TaskStep

SpecConc == InitConc /\ [][NextConc]_vars

\* The executor runs every task it was handed: a worker whose task can take a
\* step takes one.
Fairness == \A i \in Workers : WF_vars(WorkerStep(i))

SpecLive == InitConc /\ [][NextConc]_vars /\ Fairness

---------------------------------------------------------------------------
(* Properties *)

\* A certificate as the service makes them: self-signed, subject and issuer
\* "CN=" + its nickname.
Own(c) ==
  /\ c.isRoot
  /\ c.subjectName = "CN=" \o c.nickname
  /\ c.issuerName = "CN=" \o c.nickname

\* The store s holds certificates under nickname n, none of them the
\* service's own.
ForeignOnly(s, n) ==
  /\ CertsByNickname(s, n) # {}
  /\ \A c \in CertsByNickname(s, n) : ~Own(c)

\* Task i has run: CalculateResult has returned and the callback is due.
Returned(i) == tasks[i].pc = "CallCallback"

\* C1: with one request after the other, the store never holds more than one
\* certificate under a nickname.
C1_AtMostOne ==
  \A n \in {c.nickname : c \in store} : Cardinality(CertsByNickname(store, n)) <= 1

\* A get task that found no certificate under its nickname has returned NS_OK
\* and the store holds one.
C1_Witness ==
  \E i \in Workers :
    /\ Returned(i) /\ tasks[i].kind = "Get" /\ tasks[i].rv = NS_OK
    /\ CertsByNickname(tasks[i].store0, tasks[i].mNickname) = {}
    /\ Cardinality(CertsByNickname(store, tasks[i].mNickname)) = 1

\* C2 as stated: every completed request has called its callback exactly once.
C2_Original == last.kind \in {"Get", "Remove"} => last.calls = 1

\* C2, amended: no completed request has called its callback more than once; a
\* request with a nickname and a callback that returned NS_OK (the login
\* failed, or its task ran) has called it exactly once; a request rejected for
\* its arguments or whose dispatch failed has returned the error and has not
\* called it.
C2_CallbackOnce ==
  last.kind \in {"Get", "Remove"} =>
    /\ last.calls <= 1
    /\ (last.nickname # "" /\ last.callback /\ last.ret = NS_OK) => last.calls = 1
    /\ (last.nickname = "" \/ ~last.callback \/ NS_FAILED(last.ret)) => last.calls = 0
    /\ NS_FAILED(last.ret) => ~last.dispatched

\* A remove task that failed has called its callback once.
C2_Witness ==
  /\ last.kind = "Remove" /\ last.dispatched
  /\ NS_FAILED(last.rv) /\ last.calls = 1

\* C3 as stated: a callback of a get request carries a certificate and NS_OK,
\* or an error and no certificate.
C3_Original ==
  (last.kind = "Get" /\ last.calls >= 1) =>
    \/ last.rv = NS_OK /\ last.cert # nullptr
    \/ NS_FAILED(last.rv) /\ last.cert = nullptr

\* C4: every certificate a step takes from the store is self-signed with
\* subject and issuer "CN=" + nickname, and when RemoveExisting finds a
\* certificate that is not, the task (remove or get) returns
\* NS_ERROR_UNEXPECTED and the store is as before.
C4_PurgeGuard ==
  [][ /\ \A c \in store \ store' : Own(c)
      /\ \A i \in Workers :
           ( /\ tasks[i].pc = "RemoveExisting"
             /\ tasks'[i] # tasks[i]
             /\ tasks'[i].cert # nullptr
             /\ ~Own(tasks'[i].cert) )
           => /\ store' = store
              /\ keys' = keys
              /\ tasks'[i].pc = "CallCallback"
              /\ tasks'[i].rv = NS_ERROR_UNEXPECTED ]_vars

\* A remove task has deleted a certificate.
C4_Witness ==
  \E i \in Workers :
    Returned(i) /\ tasks[i].kind = "Remove" /\ tasks[i].deleted # {}

\* Task i is a get task that has run on a store whose certificate under the
\* nickname was not the service's own.
GetOnForeign(i) ==
  /\ Returned(i) /\ tasks[i].kind = "Get"
  /\ ForeignOnly(tasks[i].store0, tasks[i].mNickname)

\* C5 as stated: such a task fails with NS_ERROR_UNEXPECTED and leaves the
\* store as it was.
C5_Original ==
  \A i \in Workers :
    GetOnForeign(i) => tasks[i].rv = NS_ERROR_UNEXPECTED /\ store = tasks[i].store0

\* C5, amended: such a task fails and leaves the store and the keys as they
\* were; it fails with NS_ERROR_UNEXPECTED unless Generate got no key slot.  And
\* no callback of a completed get request on such a nickname carries NS_OK.
C5_ForeignKept ==
  /\ \A i \in Workers :
       GetOnForeign(i) =>
         /\ store = tasks[i].store0
         /\ keys = tasks[i].keys0
         /\ NS_FAILED(tasks[i].rv)
         /\ tasks[i].rv = NS_ERROR_UNEXPECTED \/ tasks[i].failedAt = "slot"
  /\ (last.kind = "Get" /\ last.calls >= 1 /\ ForeignOnly(store, last.nickname))
       => NS_FAILED(last.rv)

\* A get task on such a store has failed with NS_ERROR_UNEXPECTED.
C5_Witness ==
  \E i \in Workers : GetOnForeign(i) /\ tasks[i].rv = NS_ERROR_UNEXPECTED

\* C6 as stated: when a get task has run, every private key on the slot has a
\* certificate in the store.
C6_Original ==
  \A i \in Workers :
    (Returned(i) /\ tasks[i].kind = "Get") =>
      \A k \in keys : \E c \in store : c.key = k

\* Task i is a get task that has returned NS_OK, and the request completed
\* before it was a get request on the same nickname that delivered NS_OK.
SecondGet(i) ==
  /\ Returned(i) /\ tasks[i].kind = "Get" /\ tasks[i].rv = NS_OK
  /\ last.kind = "Get" /\ last.calls = 1 /\ last.rv = NS_OK
  /\ last.nickname = tasks[i].mNickname

\* Task i delivers the certificate of the request before it, and has deleted,
\* generated and imported nothing.
SameAsBefore(i) ==
  /\ tasks[i].mCert = last.cert
  /\ tasks[i].deleted = {} /\ tasks[i].imported = {} /\ tasks[i].nGenerate = 0
  /\ store = tasks[i].store0 /\ keys = tasks[i].keys0

Accepts(c, n, t) ==
  /\ c.isRoot
  /\ c.subjectName = c.issuerName
  /\ c.subjectName = "CN=" \o n
  /\ c.notBefore <= t
  /\ c.notAfter >= t - oneDay

\* Task i is a get task that has returned NS_OK on a store whose one
\* certificate under the nickname, c0, was the service's own and expired two
\* days ago.
RegeneratedFrom(i, c0) ==
  /\ Returned(i) /\ tasks[i].kind = "Get" /\ tasks[i].rv = NS_OK
  /\ CertsByNickname(tasks[i].store0, tasks[i].mNickname) = {c0}
  /\ Own(c0)
  /\ c0.notAfter = now - 2 * oneDay

\* The certificate task i delivers is valid from one day ago for 365 days from
\* now, passes the validity test and is the only one under the nickname, and c0
\* is gone.
FreshCertificate(i, c0) ==
  /\ c0 \notin store
  /\ tasks[i].mCert.notBefore = now - oneDay
  /\ tasks[i].mCert.notAfter = now + 365 * oneDay
  /\ Accepts(tasks[i].mCert, tasks[i].mNickname, now)
  /\ CertsByNickname(store, tasks[i].mNickname) = {tasks[i].mCert}

\* C8 as stated: the expired certificate is replaced by a new one with a
\* different serial.
C8_Original ==
  \A i \in Workers : \A c0 \in tasks[i].store0 :
    RegeneratedFrom(i, c0) =>
      FreshCertificate(i, c0) /\ tasks[i].mCert.serial # c0.serial

\* C8, amended: the expired certificate is replaced by a new one with a new
\* key pair (its serial is drawn at random and may be the old one).
C8_Regenerated ==
  \A i \in Workers : \A c0 \in tasks[i].store0 :
    RegeneratedFrom(i, c0) =>
      /\ FreshCertificate(i, c0)
      /\ tasks[i].mCert # c0
      /\ tasks[i].mCert.key \notin tasks[i].keys0
      /\ tasks[i].mCert.key \in keys
      /\ tasks[i].imported = {tasks[i].mCert}
      /\ tasks[i].deleted = {c0}

\* An expired certificate has been replaced.
C8_Witness ==
  \E i \in Workers : \E c0 \in tasks[i].store0 :
    RegeneratedFrom(i, c0) /\ tasks[i].mCert # c0

C10_Original ==
  \A i \in Workers :
    (Returned(i) /\ tasks[i].kind = "Get" /\ tasks[i].rv = NS_OK
       /\ tasks[i].nGenerate = 0)
      => tasks[i].mCert.notAfter >= now + oneDay

\* Task i is a remove task that has run on a store that held no certificate
\* under its nickname.
RemoveOnNone(i) ==
  /\ Returned(i) /\ tasks[i].kind = "Remove"
  /\ CertsByNickname(tasks[i].store0, tasks[i].mNickname) = {}

\* C11: a remove task on a store with no certificate under its nickname
\* returns NS_OK and leaves the store and the keys as they were; so a remove
\* task that follows a successful remove request on the same nickname returns
\* NS_OK too, and the store holds no certificate under the nickname.
C11_RemoveTwice ==
  \A i \in Workers :
    /\ RemoveOnNone(i) =>
         /\ tasks[i].rv = NS_OK
         /\ store = tasks[i].store0 /\ keys = tasks[i].keys0
         /\ tasks[i].deleted = {}
    /\ ( /\ Returned(i) /\ tasks[i].kind = "Remove"
         /\ last.kind = "Remove" /\ last.calls = 1 /\ last.rv = NS_OK
         /\ last.nickname = tasks[i].mNickname )
       => /\ tasks[i].rv = NS_OK
          /\ CertsByNickname(store, tasks[i].mNickname) = {}
          /\ store = tasks[i].store0

\* A remove task has run after a successful remove request on the same
\* nickname, and has returned NS_OK.
C11_Witness ==
  \E i \in Workers :
    /\ RemoveOnNone(i) /\ tasks[i].rv = NS_OK
    /\ last.kind = "Remove" /\ last.calls = 1 /\ last.rv = NS_OK
    /\ last.nickname = tasks[i].mNickname

\* The request completed last was rejected for its arguments: an empty
\* nickname or a null callback.
Rejected(e) ==
  /\ e.kind \in {"Get", "Remove"}
  /\ e.nickname = "" \/ ~e.callback

\* C12 as stated: such a request has returned NS_ERROR_INVALID_ARG.
C12_Original == Rejected(last) => last.ret = NS_ERROR_INVALID_ARG

\* C12, amended: a request with an empty nickname has returned
\* NS_ERROR_INVALID_ARG, one with a nickname and a null callback
\* NS_ERROR_INVALID_POINTER; it has called no callback, dispatched no task and
\* not prompted; and the step that makes it leaves the key slot, the store, the
\* keys and the tasks as they were.
C12_ArgumentsRejected ==
  /\ [](Rejected(last) =>
          /\ last.ret = IF last.nickname = "" THEN NS_ERROR_INVALID_ARG
                        ELSE NS_ERROR_INVALID_POINTER
          /\ last.calls = 0 /\ ~last.dispatched /\ ~last.prompted)
  /\ [][(Rejected(last') /\ last' # last) =>
          /\ slot' = slot /\ store' = store /\ keys' = keys
          /\ tasks' = tasks]_vars

\* A request with a nickname and a null callback has been rejected while the
\* key slot had no password yet.
C12_Witness ==
  /\ Rejected(last) /\ last.nickname # "" /\ ~last.callback
  /\ last.ret = NS_ERROR_INVALID_POINTER
  /\ slot.needUserInit

\* LoginToKeySlot returned an error to the request completed last.
UnlockFailed(e) == e.kind \in {"Get", "Remove"} /\ NS_FAILED(e.login)

\* C13: a request whose LoginToKeySlot failed has called its callback once,
\* with that error and no certificate, has returned NS_OK and has dispatched
\* no task (no task ever carries a failed login); the step that makes it
\* leaves the store, the keys and the tasks as they were.
C13_UnlockFails ==
  /\ [](/\ UnlockFailed(last) =>
             /\ last.calls = 1 /\ last.rv = last.login /\ last.cert = nullptr
             /\ last.ret = NS_OK /\ ~last.dispatched
         /\ \A i \in Workers : Running(i) => tasks[i].login = NS_OK)
  /\ [][(UnlockFailed(last') /\ last' # last) =>
          /\ store' = store /\ keys' = keys /\ tasks' = tasks]_vars

\* A request has prompted for the login, the login has failed and the request
\* has called its callback with the error.
C13_Witness ==
  /\ UnlockFailed(last) /\ last.prompted
  /\ last.login = LOGIN_ERROR /\ last.calls = 1 /\ last.rv = LOGIN_ERROR

\* C14: a call of GetLoginPromptRequired that returns NS_OK leaves a slot that
\* has a password (it sets the empty one when there was none), and answers
\* TRUE exactly when the slot needs a login and is not logged in, which is
\* exactly when LoginToKeySlot would prompt; no call of it, failed or not,
\* prompts, logs in, or touches the store, the keys or the tasks.
C14_PromptRequired ==
  [][(last'.kind = "LoginPromptRequired" /\ last' # last) =>
       /\ slot'.isLoggedIn = slot.isLoggedIn
       /\ ~last'.prompted /\ last'.calls = 0
       /\ store' = store /\ keys' = keys /\ tasks' = tasks
       /\ ~NS_FAILED(last'.ret) =>
            /\ ~slot'.needUserInit
            /\ slot.needUserInit => slot' = PK11_InitPin(slot)
            /\ ~slot.needUserInit => slot' = slot
            /\ last'.aRequired <=> (slot'.needLogin /\ ~slot'.isLoggedIn)
            /\ last'.aRequired <=> LoginToKeySlot(slot, "none").prompted]_vars

\* GetLoginPromptRequired has answered FALSE for a slot that needs a login and
\* is logged in.
C14_Witness ==
  /\ last.kind = "LoginPromptRequired" /\ last.ret = NS_OK
  /\ ~last.aRequired /\ slot.needLogin /\ slot.isLoggedIn

\* The steps of Generate (RemoveExisting and the read-back included) that can
\* make it fail.
GenerateSteps ==
  {"slot", "RemoveExisting", "DeleteTokenCertAndKey", "subjectName",
   "curveOidData", "privateKey", "ImportCert", "GetFromDB"}
    \cup DOMAIN CreateFailures

\* C16: a get task calls Generate at most once.  Once it has returned: if it
\* failed, it has called Generate and the error is that of the step of
\* Generate that failed; if it found no certificate under the nickname, or
\* Validate failed, it has called Generate, and its result is NS_OK or the
\* error of Generate.
C16_OneFallback ==
  \A i \in Workers :
    /\ tasks[i].nGenerate <= 1
    /\ (Returned(i) /\ tasks[i].kind = "Get") =>
         /\ NS_FAILED(tasks[i].rv) =>
              /\ tasks[i].nGenerate = 1
              /\ tasks[i].failedAt \in GenerateSteps
         /\ tasks[i].rv = NS_OK => tasks[i].failedAt = "none"
         /\ CertsByNickname(tasks[i].store0, tasks[i].mNickname) = {}
              => tasks[i].nGenerate = 1
         /\ (tasks[i].validated /\ NS_FAILED(tasks[i].vRv))
              => tasks[i].nGenerate = 1

\* A get task has failed in Generate after Validate failed.
C16_Witness ==
  \E i \in Workers :
    /\ Returned(i) /\ tasks[i].kind = "Get"
    /\ tasks[i].validated /\ NS_FAILED(tasks[i].vRv)
    /\ NS_FAILED(tasks[i].rv) /\ tasks[i].nGenerate = 1

\* C18: when a get task has returned NS_OK, the certificate it delivers is the
\* one certificate the store holds under its nickname, and when it has
\* imported one it delivers the imported one; when the look-up after an import
\* failed, the task has failed.
C18_DeliversStored ==
  \A i \in Workers :
    (Returned(i) /\ tasks[i].kind = "Get") =>
      /\ tasks[i].rv = NS_OK =>
           /\ tasks[i].mCert # nullptr
           /\ CertsByNickname(store, tasks[i].mNickname) = {tasks[i].mCert}
           /\ CallCallback(tasks[i], tasks[i].rv).cert \in store
           /\ tasks[i].imported # {} => tasks[i].mCert \in tasks[i].imported
      /\ (tasks[i].imported # {} /\ tasks[i].failedAt = "GetFromDB")
           => NS_FAILED(tasks[i].rv)

\* A get task has imported a certificate, read it back and returned NS_OK.
C18_Witness ==
  \E i \in Workers :
    /\ Returned(i) /\ tasks[i].kind = "Get" /\ tasks[i].rv = NS_OK
    /\ tasks[i].imported # {} /\ tasks[i].mCert \in store

\* Task i is a get task that has run on a store whose one certificate under
\* the nickname, c, passes the validity test.
GetOnValid(i, c) ==
  /\ Returned(i) /\ tasks[i].kind = "Get"
  /\ CertsByNickname(tasks[i].store0, tasks[i].mNickname) = {c}
  /\ Accepts(c, tasks[i].mNickname, now)

\* Task i has returned NS_OK with c and has changed nothing.
ReturnedUnchanged(i, c) ==
  /\ tasks[i].rv = NS_OK /\ tasks[i].mCert = c
  /\ store = tasks[i].store0 /\ keys = tasks[i].keys0
  /\ tasks[i].deleted = {} /\ tasks[i].imported = {}
  /\ tasks[i].nGenerate = 0 /\ tasks[i].privateKey = 0

\* C19 as stated: a get task on a store with a valid certificate under the
\* nickname returns NS_OK with it and changes nothing.
C19_Original ==
  \A i \in Workers : \A c \in tasks[i].store0 :
    GetOnValid(i, c) => ReturnedUnchanged(i, c)

\* C19, amended: it does when the certificate database service is there for
\* its look-up.
C19_ValidKept ==
  \A i \in Workers : \A c \in tasks[i].store0 :
    (GetOnValid(i, c) /\ certDB) => ReturnedUnchanged(i, c)

\* A get task has returned the valid certificate of the store.
C19_Witness ==
  \E i \in Workers : \E c \in tasks[i].store0 :
    GetOnValid(i, c) /\ certDB /\ tasks[i].mCert = c /\ tasks[i].rv = NS_OK

\* The nicknames of the tasks that take a step.
Stepping == {tasks[i].mNickname : i \in {j \in Workers : tasks'[j] # tasks[j]}}

\* C20: every certificate a step takes from the store or adds to it is under
\* the nickname of a task that takes the step, and no step changes a
\* certificate of the store: every certificate under another nickname stays as
\* it is.
C20_OtherNicknames ==
  [][/\ \A c \in (store \ store') \cup (store' \ store) : c.nickname \in Stepping
     /\ \A m \in {c.nickname : c \in store} \ Stepping :
          CertsByNickname(store', m) = CertsByNickname(store, m)]_vars

\* A get task has deleted a certificate and imported one under its nickname,
\* and the certificate under the other nickname is in the store.
C20_Witness ==
  \E i \in Workers :
    /\ Returned(i) /\ tasks[i].deleted # {} /\ tasks[i].imported # {}
    /\ Bystander \in store /\ Bystander.nickname # tasks[i].mNickname

\* C15 as stated: with tasks that interleave, no two certificates of the store
\* have the same nickname.
C15_Original ==
  \A c1, c2 \in store : c1.nickname = c2.nickname => c1 = c2

\* C17: every dispatched task completes: its worker has called the callback and
\* is free again.
C17_Completes == \A i \in Workers : Running(i) ~> ~Running(i)

\* A task has gone through the loop of RemoveExisting twice while another task
\* ran: it has deleted two certificates.
C17_Witness ==
  \E i \in Workers :
    /\ Returned(i) /\ Cardinality(tasks[i].deleted) >= 2
    /\ \E j \in Workers \ {i} : Running(j)


===========================================================================
